---------------------------- MODULE Spec2Model ----------------------------
(***************************************************************************)
(* Model of dataPersistence.js (src/unnamed/part_000): the four record     *)
(* managers UserManager, GameStateManager, GameHistoryManager and          *)
(* SettingsManager over a synchronous key-value store (localStorage), and  *)
(* the debounce timer of GameStateManager.autoSave.                        *)
(*                                                                         *)
(* JavaScript values are tagged records, so that JSON.stringify and        *)
(* JSON.parse can be modelled by what they do to each kind of value.       *)
(***************************************************************************)
EXTENDS Integers, Sequences, FiniteSets, TLC

VARIABLES
    users,      \* store item under STORAGE_KEYS.USER_DATA
    game,       \* store item under STORAGE_KEYS.GAME_STATE
    history,    \* store item under STORAGE_KEYS.GAME_HISTORY
    settings,   \* store item under STORAGE_KEYS.SETTINGS
    now,        \* wall clock of the host, in milliseconds
    timeout,    \* the variable `timeout` captured by autoSave (0 is null)
    timers,     \* the host's table of scheduled, not yet fired timers
    nextId,     \* the next timer handle the host hands out
    call,       \* the operation most recently run, with its arguments
    ret,        \* what that operation gave back to its caller
    trace,      \* autoSave calls and deferred writes, in the order they ran
    adds,       \* entries written to the history since it was last empty
    ops,        \* operations run so far, where a behaviour counts them
    ui          \* the page of saveLoadButtons.js: its elements and their timers

vars == <<users, game, history, settings, now, timeout, timers, nextId,
          call, ret, trace, adds, ops, ui>>

storeVars == <<users, game, history, settings>>
timerVars == <<timeout, timers, nextId, trace>>
hostVars == <<now, timeout, timers, nextId, trace, adds, ui>>

-----------------------------------------------------------------------------
(* JavaScript values *)

S(x) == [t |-> "str", v |-> x]
N(n) == [t |-> "num", v |-> n]
B(b) == [t |-> "bool", v |-> b]
Obj(f) == [t |-> "obj", f |-> f]
Arr(s) == [t |-> "arr", items |-> s]
Null == [t |-> "null"]
Undefined == [t |-> "undefined"]
NaN == [t |-> "nan"]

EmptyObj == Obj(<<>>)

\* o.k : reading a property of null or undefined raises a TypeError
PropThrows(o) == o.t \in {"null", "undefined"}

\* o.k for a value that is not null or undefined
Prop(o, k) == IF o.t = "obj" /\ k \in DOMAIN o.f THEN o.f[k] ELSE Undefined

\* a === b on primitives (NaN equals nothing, itself included)
StrictEq(a, b) == a = b /\ a.t # "nan"

\* the own enumerable properties a spread copies: the elements of an array
\* under their indices, none for null, undefined, numbers and booleans
SpreadFields(o) ==
    IF o.t = "obj" THEN o.f
    ELSE IF o.t = "arr"
    THEN [k \in {ToString(i - 1) : i \in DOMAIN o.items} |->
            o.items[CHOOSE i \in DOMAIN o.items : ToString(i - 1) = k]]
    ELSE <<>>

\* { ...a, ...b }
Spread(a, b) ==
    LET fa == SpreadFields(a)
        fb == SpreadFields(b)
    IN  Obj([k \in DOMAIN fa \cup DOMAIN fb |->
                IF k \in DOMAIN fb THEN fb[k] ELSE fa[k]])

\* { ...a, k1: v1 }
SetField(o, k, v) == Spread(o, Obj([x \in {k} |-> v]))

-----------------------------------------------------------------------------
(* JSON and the store *)

\* What JSON.parse(JSON.stringify(v)) yields: a property whose value is
\* undefined is dropped, an undefined array element and NaN become null.
RECURSIVE ToJSON(_)
ToJSON(v) ==
    CASE v.t = "obj" ->
            Obj([k \in {x \in DOMAIN v.f : v.f[x].t # "undefined"} |-> ToJSON(v.f[k])])
      [] v.t = "arr" ->
            Arr([i \in DOMAIN v.items |->
                    IF v.items[i].t = "undefined" THEN Null ELSE ToJSON(v.items[i])])
      [] v.t = "nan" -> Null
      [] OTHER -> v

\* A store item: the key is absent, or holds a string that JSON.parse
\* rejects, or holds the JSON text of a value.
Absent == [kind |-> "absent"]
Malformed == [kind |-> "malformed"]
Text(v) == [kind |-> "text", json |-> v]

\* JSON.stringify(v), as the string localStorage.setItem stores
JSONstringify(v) == Text(ToJSON(v))

\* JSON.parse(data) raises a SyntaxError on a malformed string
ParseThrows(item) == item.kind = "malformed"
JSONparse(item) == item.json

\* What an operation gives back to its caller
RetUndefined == [kind |-> "undefined"]
RetBool(b) == [kind |-> "bool", val |-> b]
RetNull == [kind |-> "null"]
RetValue(v) == [kind |-> "value", val |-> v]
RetThrow == [kind |-> "throw"]

NoCall == [op |-> "none"]


-----------------------------------------------------------------------------
(* UserManager *)

\* getAllUsers with a catch block that gives back null
getAllUsersNullOnError(item) ==
    IF item.kind = "absent" THEN Arr(<<>>)
    ELSE IF ParseThrows(item) THEN Null
    ELSE JSONparse(item)

\* getAllUsers: the decoded payload; [] when the key is absent (or holds
\* the empty string) and when JSON.parse raises
getAllUsersValue(item) ==
    IF item.kind = "absent" THEN Arr(<<>>)
    ELSE IF ParseThrows(item) THEN Arr(<<>>)
    ELSE JSONparse(item)

\* the callback u => u.username === name, where it does not raise
MatchesUsername(u, name) == ~PropThrows(u) /\ StrictEq(Prop(u, "username"), name)

\* Array.prototype.findIndex / find with that callback: the least index whose
\* element matches, 0 when there is none
FirstMatch(list, name) ==
    LET hits == {i \in DOMAIN list : MatchesUsername(list[i], name)}
    IN  IF hits = {} THEN 0 ELSE CHOOSE i \in hits : \A j \in hits : i <= j

\* the scan raises a TypeError: the value has no findIndex / find method (it
\* is no array), or an element visited before the first match is null
ScanThrows(value, name) ==
    \/ value.t # "arr"
    \/ LET list == value.items
           bad == {i \in DOMAIN list : PropThrows(list[i])}
           m == FirstMatch(list, name)
       IN  \E i \in bad : m = 0 \/ i < m

\* users[existingIndex] = userData: the stored record is replaced
ReplaceRecord(existing, userData) == userData

\* users[existingIndex] = { ...users[existingIndex], ...userData }
MergeRecord(existing, userData) == Spread(existing, userData)

\* saveUser without the findIndex branch: the record is always pushed
UpdatedUsersAlwaysPush(list, userData) == Append(list, userData)

\* saveUser that takes the stored record out and pushes the merged one
UpdatedUsersMovesLast(list, userData) ==
    LET existingIndex == FirstMatch(list, Prop(userData, "username"))
        Others(i) == [j \in 1..(Len(list) - 1) |-> IF j < i THEN list[j] ELSE list[j + 1]]
    IN  IF existingIndex >= 1
        THEN Append(Others(existingIndex), MergeRecord(list[existingIndex], userData))
        ELSE Append(list, userData)

\* lines 24-30: the list saveUser is about to write
UpdatedUsers(list, userData) ==
    LET existingIndex == FirstMatch(list, Prop(userData, "username"))
    IN  IF existingIndex >= 1
        THEN [list EXCEPT ![existingIndex] = MergeRecord(list[existingIndex], userData)]
        ELSE Append(list, userData)

\* saveUser with a catch block that logs and falls through to `return true`
saveUserSwallowsRaise(item, userData, raises) ==
    LET value == getAllUsersValue(item)
    IN  IF \/ (value.t = "arr" /\ value.items # <<>> /\ PropThrows(userData))
           \/ ScanThrows(value, IF PropThrows(userData) THEN Undefined
                                ELSE Prop(userData, "username"))
        THEN [ok |-> TRUE, raised |-> FALSE, item |-> item]
        ELSE IF raises
        THEN [ok |-> TRUE, raised |-> TRUE, item |-> item]
        ELSE [ok |-> TRUE, raised |-> FALSE,
              item |-> JSONstringify(Arr(UpdatedUsers(value.items, userData)))]

\* the body of saveUser: its boolean result, the item it leaves in the store
\* and whether setItem raised. `raises` says whether localStorage.setItem
\* raises if this call reaches it.
saveUserOutcome(item, userData, raises) ==
    LET value == getAllUsersValue(item)
    IN  IF \/ (value.t = "arr" /\ value.items # <<>> /\ PropThrows(userData))
           \/ ScanThrows(value, IF PropThrows(userData) THEN Undefined
                                ELSE Prop(userData, "username"))
        THEN [ok |-> FALSE, raised |-> FALSE, item |-> item]
        ELSE IF raises
        THEN [ok |-> FALSE, raised |-> TRUE, item |-> item]
        ELSE [ok |-> TRUE, raised |-> FALSE,
              item |-> JSONstringify(Arr(UpdatedUsers(value.items, userData)))]

\* the body of getUser: users.find(...) || null, outside any try block
getUserOutcome(item, username) ==
    LET value == getAllUsersValue(item)
    IN  IF ScanThrows(value, username) THEN RetThrow
        ELSE LET i == FirstMatch(value.items, username)
             IN  IF i = 0 THEN RetNull ELSE RetValue(value.items[i])

saveUser(userData, raises) ==
    LET out == saveUserOutcome(users, userData, raises)
    IN  /\ users' = out.item
        /\ ret' = RetBool(out.ok)
        /\ call' = [op |-> "saveUser", userData |-> userData, raises |-> raises,
                    writeFailed |-> out.raised]
        /\ UNCHANGED <<game, history, settings, hostVars>>

getAllUsers ==
    /\ ret' = RetValue(getAllUsersValue(users))
    /\ call' = [op |-> "getAllUsers"]
    /\ UNCHANGED <<storeVars, hostVars>>

getUser(username) ==
    /\ ret' = getUserOutcome(users, username)
    /\ call' = [op |-> "getUser", username |-> username]
    /\ UNCHANGED <<storeVars, hostVars>>

\* authenticate without the password comparison
authenticateAnyPassword(item, username, password) == getUserOutcome(item, username)

\* the body of authenticate
authenticateOutcome(item, username, password) ==
    LET user == getUserOutcome(item, username)
    IN  IF user.kind = "throw" THEN RetThrow
        ELSE IF user.kind = "value" /\ StrictEq(Prop(user.val, "password"), password)
        THEN user
        ELSE RetNull

authenticate(username, password) ==
    /\ ret' = authenticateOutcome(users, username, password)
    /\ call' = [op |-> "authenticate", username |-> username, password |-> password]
    /\ UNCHANGED <<storeVars, hostVars>>

\* user.stats = stats: the patch replaces the stats mapping
ReplaceStats(user, stats) == SetField(user, "stats", stats)

\* user.stats = { ...user.stats, ...stats }
MergeStats(user, stats) == SetField(user, "stats", Spread(Prop(user, "stats"), stats))

\* the body of updateStats: the result of saveUser is dropped
updateStatsOutcome(item, username, stats, raises) ==
    LET user == getUserOutcome(item, username)
    IN  IF user.kind = "throw" THEN [ret |-> RetThrow, raised |-> FALSE, item |-> item]
        ELSE IF user.kind = "value"
        THEN LET out == saveUserOutcome(item, MergeStats(user.val, stats), raises)
             IN  [ret |-> RetUndefined, raised |-> out.raised, item |-> out.item]
        ELSE [ret |-> RetUndefined, raised |-> FALSE, item |-> item]

updateStats(username, stats, raises) ==
    LET out == updateStatsOutcome(users, username, stats, raises)
    IN  /\ users' = out.item
        /\ ret' = out.ret
        /\ call' = [op |-> "updateStats", username |-> username, stats |-> stats,
                    raises |-> raises, writeFailed |-> out.raised]
        /\ UNCHANGED <<game, history, settings, hostVars>>


-----------------------------------------------------------------------------
(* GameStateManager *)

\* the quiet interval of autoSave, in milliseconds
DebounceMs == 2000

\* new Date().toISOString() at instant n: a string that names the instant
ISO(n) == [t |-> "iso", v |-> n]

\* a snapshot in which the caller's own timestamp and version fields win
stateToSaveKeepsOwn(gameState, at) ==
    Spread(Obj([timestamp |-> ISO(at), version |-> S("1.0")]), gameState)

\* lines 103-107: { ...gameState, timestamp: ..., version: '1.0' }
stateToSave(gameState, at) ==
    Spread(gameState, Obj([timestamp |-> ISO(at), version |-> S("1.0")]))

\* the body of saveGameState at instant `at`
saveGameStateOutcome(item, gameState, at, raises) ==
    IF raises
    THEN [ok |-> FALSE, raised |-> TRUE, item |-> item]
    ELSE [ok |-> TRUE, raised |-> FALSE, item |-> JSONstringify(stateToSave(gameState, at))]

\* a saveGameState that also cancels the write autoSave has scheduled
saveGameStateCancelsTimer(gameState, raises) ==
    LET out == saveGameStateOutcome(game, gameState, now, raises)
    IN  /\ game' = out.item
        /\ ret' = RetBool(out.ok)
        /\ call' = [op |-> "saveGameState", gameState |-> gameState, raises |-> raises,
                    writeFailed |-> out.raised, at |-> now, before |-> game]
        /\ timers' = {}
        /\ timeout' = 0
        /\ UNCHANGED <<users, history, settings, now, nextId, trace, adds, ui>>

saveGameState(gameState, raises) ==
    LET out == saveGameStateOutcome(game, gameState, now, raises)
    IN  /\ game' = out.item
        /\ ret' = RetBool(out.ok)
        /\ call' = [op |-> "saveGameState", gameState |-> gameState, raises |-> raises,
                    writeFailed |-> out.raised, at |-> now, before |-> game]
        /\ UNCHANGED <<users, history, settings, hostVars>>

\* the body of loadGameState: null when the key is absent or JSON.parse raises
loadGameStateOutcome(item) ==
    IF item.kind = "absent" THEN RetNull
    ELSE IF ParseThrows(item) THEN RetNull
    ELSE IF JSONparse(item).t = "null" THEN RetNull
    ELSE RetValue(JSONparse(item))

loadGameState ==
    /\ ret' = loadGameStateOutcome(game)
    /\ call' = [op |-> "loadGameState"]
    /\ UNCHANGED <<storeVars, hostVars>>

\* a hasSavedGame that asks whether a snapshot can be loaded
hasSavedGameDecodes(item) == loadGameStateOutcome(item).kind = "value"

\* localStorage.getItem(key) !== null
hasSavedGameOutcome(item) == item.kind # "absent"

hasSavedGame ==
    /\ ret' = RetBool(hasSavedGameOutcome(game))
    /\ call' = [op |-> "hasSavedGame"]
    /\ UNCHANGED <<storeVars, hostVars>>

\* a clearGameState that stores the JSON text null in place of removing the key
clearGameStateStoresNull ==
    /\ game' = Text(Null)
    /\ ret' = RetUndefined
    /\ call' = [op |-> "clearGameState", before |-> game]
    /\ UNCHANGED <<users, history, settings, hostVars>>

clearGameState ==
    /\ game' = Absent
    /\ ret' = RetUndefined
    /\ call' = [op |-> "clearGameState", before |-> game]
    /\ UNCHANGED <<users, history, settings, hostVars>>

\* clearTimeout(handle): the timer, if still scheduled, is dropped
clearTimeout(table, handle) == {tm \in table : tm.id # handle}

\* autoSave without `if (timeout) clearTimeout(timeout)`
CancelNothing(table) == table

\* lines 156-158: timer handles are positive, so a handle is truthy
CancelPending(table) == IF timeout # 0 THEN clearTimeout(table, timeout) ELSE table

\* an autoSave that lets a scheduled write stand and schedules none itself
autoSaveKeepsTimer(caller, gameState) ==
    /\ timers' = IF timers # {} THEN timers
                 ELSE {[id |-> nextId, due |-> now + DebounceMs, gameState |-> gameState]}
    /\ timeout' = IF timers # {} THEN timeout ELSE nextId
    /\ nextId' = nextId + 1
    /\ trace' = Append(trace, [ev |-> "call", at |-> now, gameState |-> gameState])
    /\ ret' = RetUndefined
    /\ call' = [op |-> "autoSave", caller |-> caller, gameState |-> gameState]
    /\ UNCHANGED <<storeVars, now, adds, ui>>

\* lines 155-162: cancel the scheduled write, schedule a new one
autoSave(caller, gameState) ==
    /\ timers' = CancelPending(timers) \cup
                    {[id |-> nextId, due |-> now + DebounceMs, gameState |-> gameState]}
    /\ timeout' = nextId
    /\ nextId' = nextId + 1
    /\ trace' = Append(trace, [ev |-> "call", at |-> now, gameState |-> gameState])
    /\ ret' = RetUndefined
    /\ call' = [op |-> "autoSave", caller |-> caller, gameState |-> gameState]
    /\ UNCHANGED <<storeVars, now, adds, ui>>

\* the callback that writes the state of the first autoSave call ever made
FirstCallState(tm) == trace[1].gameState

\* the state the callback of a timer passes to saveGameState
CapturedState(tm) == tm.gameState

\* lines 159-161: the host runs the callback of a timer whose delay has
\* passed; the callback drops the result of saveGameState
deferredSave(tm, raises) ==
    /\ tm \in timers
    /\ now >= tm.due
    /\ LET out == saveGameStateOutcome(game, CapturedState(tm), now, raises)
       IN  /\ game' = out.item
           /\ trace' = Append(trace, [ev |-> "write", at |-> now,
                                      gameState |-> CapturedState(tm), ok |-> out.ok])
           /\ call' = [op |-> "deferredSave", raises |-> raises,
                       writeFailed |-> out.raised, gameState |-> CapturedState(tm),
                       due |-> tm.due, before |-> game]
    /\ timers' = timers \ {tm}
    /\ ret' = RetUndefined
    /\ UNCHANGED <<users, history, settings, now, timeout, nextId, adds, ui>>

\* no scheduled timer has run out: the host runs the callback of a timer
\* that has run out before it handles any later event
NoTimerDue == \A tm \in timers : tm.due > now

\* time passes, up to the instant the next timer runs out
Tick(step, horizon) ==
    LET dues == {tm.due : tm \in timers}
        next == IF \E d \in dues : d < now + step
                THEN CHOOSE d \in dues : \A e \in dues : d <= e
                ELSE now + step
    IN  /\ NoTimerDue
        /\ next <= horizon
        /\ now' = next
        /\ UNCHANGED <<storeVars, timerVars, call, ret, adds, ui>>

-----------------------------------------------------------------------------
(* GameHistoryManager *)

\* the number of games the history keeps
MaxHistory == 50

\* getHistory: the decoded payload; [] when the key is absent and when
\* JSON.parse raises
getHistoryValue(item) ==
    IF item.kind = "absent" THEN Arr(<<>>)
    ELSE IF ParseThrows(item) THEN Arr(<<>>)
    ELSE JSONparse(item)

getHistory ==
    /\ ret' = RetValue(getHistoryValue(history))
    /\ call' = [op |-> "getHistory"]
    /\ UNCHANGED <<storeVars, hostVars>>

\* lines 177-181: { ...gameData, completedAt: ..., id: Date.now() }
gameRecord(gameData, at) ==
    Spread(gameData, Obj([completedAt |-> ISO(at), id |-> N(at)]))

\* addGameToHistory without the length check
KeepAll(list) == list

\* lines 186-188: history.length = 50 when it is longer
Truncate(list) == IF Len(list) > MaxHistory THEN SubSeq(list, 1, MaxHistory) ELSE list

\* history.push(gameRecord) in place of unshift
PushLast(list, record) == Append(list, record)

\* history.unshift(gameRecord)
Unshift(list, record) == <<record>> \o list

\* the body of addGameToHistory: whether it wrote, and the item it leaves.
\* unshift raises a TypeError on a value that is no array; every error is
\* caught and logged.
addGameToHistoryOutcome(item, gameData, at, raises) ==
    LET value == getHistoryValue(item)
    IN  IF value.t # "arr"
        THEN [wrote |-> FALSE, raised |-> FALSE, item |-> item]
        ELSE IF raises
        THEN [wrote |-> FALSE, raised |-> TRUE, item |-> item]
        ELSE [wrote |-> TRUE, raised |-> FALSE,
              item |-> JSONstringify(
                          Arr(Truncate(Unshift(value.items, gameRecord(gameData, at)))))]

addGameToHistory(gameData, raises) ==
    LET out == addGameToHistoryOutcome(history, gameData, now, raises)
    IN  /\ history' = out.item
        /\ adds' = IF out.wrote THEN adds + 1 ELSE adds
        /\ ret' = RetUndefined
        /\ call' = [op |-> "addGameToHistory", gameData |-> gameData, raises |-> raises,
                    writeFailed |-> out.raised]
        /\ UNCHANGED <<users, game, settings, now, timerVars, ui>>

\* a clearHistory that removes the game-state key
clearHistoryRemovesGame ==
    /\ game' = Absent
    /\ adds' = 0
    /\ ret' = RetUndefined
    /\ call' = [op |-> "clearHistory", before |-> history]
    /\ UNCHANGED <<users, history, settings, now, timerVars, ui>>

clearHistory ==
    /\ history' = Absent
    /\ adds' = 0
    /\ ret' = RetUndefined
    /\ call' = [op |-> "clearHistory", before |-> history]
    /\ UNCHANGED <<users, game, settings, now, timerVars, ui>>

-----------------------------------------------------------------------------
(* SettingsManager *)

\* lines 241-245 and 250-254
defaults == Obj([soundEnabled |-> B(TRUE), autoSave |-> B(TRUE), difficulty |-> S("medium")])

\* the body of saveSettings. JSON.stringify(undefined) is undefined, which
\* setItem stores as the string "undefined": no JSON text.
saveSettingsOutcome(item, value, raises) ==
    IF raises THEN item
    ELSE IF value.t = "undefined" THEN Malformed
    ELSE JSONstringify(value)

saveSettings(value, raises) ==
    /\ settings' = saveSettingsOutcome(settings, value, raises)
    /\ ret' = RetUndefined
    /\ call' = [op |-> "saveSettings", settings |-> value, raises |-> raises,
                writeFailed |-> raises]
    /\ UNCHANGED <<users, game, history, hostVars>>

\* loadSettings with the spread the other way round: the defaults win
loadSettingsDefaultsWin(item) ==
    IF item.kind = "absent" THEN defaults
    ELSE IF ParseThrows(item) THEN defaults
    ELSE Spread(JSONparse(item), defaults)

\* the body of loadSettings
loadSettingsOutcome(item) ==
    IF item.kind = "absent" THEN defaults
    ELSE IF ParseThrows(item) THEN defaults
    ELSE Spread(defaults, JSONparse(item))

loadSettings ==
    /\ ret' = RetValue(loadSettingsOutcome(settings))
    /\ call' = [op |-> "loadSettings"]
    /\ UNCHANGED <<storeVars, hostVars>>

-----------------------------------------------------------------------------
(* saveLoadButtons.js: the click handlers of the save and load buttons.
   window.gameLogic is not part of these sources: the handlers see it only
   through gameState.gameActive and the results of saveGame, hasSavedGame and
   loadGame, which are inputs here. *)

\* line 28 and lines 37, 79: how long the indicator and the message stay
IndicatorMs == 3000
MessageMs == 2000

SavedText == "Jogo salvo com sucesso!"
LoadedText == "Jogo carregado com sucesso!"

\* the page when the handlers are installed: which of #save-indicator,
\* '.message p' and #roll-dice exist, and what they show
Page(hasIndicator, hasMessage, hasRoll) ==
    [hasIndicator |-> hasIndicator, hasMessage |-> hasMessage, hasRoll |-> hasRoll,
     indicator |-> "none", message |-> "", rollDisabled |-> TRUE, pending |-> {}]

FullPage == Page(TRUE, TRUE, TRUE)

\* lines 32-38 and 74-80: the message shows `text`, and a timer puts back
\* the text it showed before
ShowMessage(page, text) ==
    IF page.hasMessage
    THEN [page EXCEPT !.message = text,
                      !.pending = @ \cup {[what |-> "restoreMessage", due |-> now + MessageMs,
                                           text |-> page.message]}]
    ELSE page

\* lines 24-29: the indicator is shown, and a timer hides it
ShowIndicator(page) ==
    IF page.hasIndicator
    THEN [page EXCEPT !.indicator = "block",
                      !.pending = @ \cup {[what |-> "hideIndicator", due |-> now + IndicatorMs,
                                           text |-> ""]}]
    ELSE page

\* lines 68-71
EnableRoll(page) == IF page.hasRoll THEN [page EXCEPT !.rollDisabled = FALSE] ELSE page

\* lines 11-19: the save handler reaches saveGame()
saveReached(loaded, active) == loaded /\ active

\* lines 10-42: a click on the save button; `success` is what saveGame returns
saveClick(loaded, active, success) ==
    LET invoked == saveReached(loaded, active)
        alert == IF ~loaded THEN "Sistema de jogo nao carregado."
                 ELSE IF ~active THEN "Nenhum jogo ativo para salvar."
                 ELSE IF ~success THEN "Erro ao salvar o jogo."
                 ELSE ""
    IN  /\ ui' = IF invoked /\ success THEN ShowMessage(ShowIndicator(ui), SavedText) ELSE ui
        /\ call' = [op |-> "saveClick", loaded |-> loaded, active |-> active,
                    invoked |-> invoked, success |-> invoked /\ success, alert |-> alert]
        /\ ret' = RetUndefined
        /\ UNCHANGED <<storeVars, now, timerVars, adds>>

\* lines 48-63: the load handler reaches loadGame()
loadReached(loaded, saved, active, confirmed) == loaded /\ saved /\ (active => confirmed)

\* lines 47-84: a click on the load button; `saved` is what hasSavedGame
\* returns, `confirmed` the answer to confirm(), `success` what loadGame returns
loadClick(loaded, saved, active, confirmed, success) ==
    LET invoked == loadReached(loaded, saved, active, confirmed)
        alert == IF ~loaded THEN "Sistema de jogo nao carregado."
                 ELSE IF ~saved THEN "Nenhum jogo salvo encontrado."
                 ELSE IF active /\ ~confirmed THEN ""
                 ELSE IF ~success THEN "Erro ao carregar o jogo."
                 ELSE ""
    IN  /\ ui' = IF invoked /\ success THEN ShowMessage(EnableRoll(ui), LoadedText) ELSE ui
        /\ call' = [op |-> "loadClick", loaded |-> loaded, saved |-> saved, active |-> active,
                    confirmed |-> confirmed, invoked |-> invoked,
                    success |-> invoked /\ success, alert |-> alert]
        /\ ret' = RetUndefined
        /\ UNCHANGED <<storeVars, now, timerVars, adds>>

\* lines 26-28, 35-37, 77-79: the callback of a page timer that has run out
uiTimeout(tm) ==
    /\ tm \in ui.pending
    /\ now >= tm.due
    /\ ui' = [ui EXCEPT !.pending = @ \ {tm},
                        !.indicator = IF tm.what = "hideIndicator" THEN "none" ELSE @,
                        !.message = IF tm.what = "restoreMessage" THEN tm.text ELSE @]
    /\ call' = [op |-> "uiTimeout", what |-> tm.what]
    /\ ret' = RetUndefined
    /\ UNCHANGED <<storeVars, now, timerVars, adds>>

NoPageTimerDue == \A tm \in ui.pending : tm.due > now

\* time passes on the page, up to the instant its next timer runs out
PageTick(step, horizon) ==
    LET dues == {tm.due : tm \in ui.pending}
        next == IF \E d \in dues : d < now + step
                THEN CHOOSE d \in dues : \A e \in dues : d <= e
                ELSE now + step
    IN  /\ NoPageTimerDue
        /\ next <= horizon
        /\ now' = next
        /\ UNCHANGED <<storeVars, timerVars, call, ret, adds, ui>>

-----------------------------------------------------------------------------
(* Inputs *)

Usernames == {S("ann"), S("bob")}
Passwords == {S("p1"), S("p2")}
StatsPatches == {Obj([wins |-> N(1)]), Obj([wins |-> N(2), losses |-> N(1)])}

\* user records: a username, and a password and a stats mapping or not
UserRecords ==
    UNION {
        { Obj([username |-> u]) : u \in Usernames },
        { Obj([username |-> x[1], password |-> x[2]]) : x \in Usernames \X Passwords },
        { Obj([username |-> x[1], stats |-> x[2]]) : x \in Usernames \X StatsPatches },
        { Obj([username |-> x[1], password |-> x[2], stats |-> x[3]]) :
            x \in Usernames \X Passwords \X StatsPatches } }

-----------------------------------------------------------------------------
(* The state after the script has loaded: nothing stored, no timer *)

IdleHost ==
    /\ now = 0
    /\ timeout = 0
    /\ timers = {}
    /\ nextId = 1
    /\ call = NoCall
    /\ ret = RetUndefined
    /\ trace = <<>>
    /\ adds = 0
    /\ ops = 0
    /\ ui = FullPage

EmptyStore ==
    /\ users = Absent
    /\ game = Absent
    /\ history = Absent
    /\ settings = Absent

-----------------------------------------------------------------------------
(* UserManager on a store that starts empty *)

InitUser == EmptyStore /\ IdleHost

NextUser ==
    \/ \E r \in UserRecords, raises \in BOOLEAN :
          saveUser(r, raises) /\ UNCHANGED ops
    \/ \E u \in Usernames, s \in StatsPatches, raises \in BOOLEAN :
          updateStats(u, s, raises) /\ UNCHANGED ops
    \/ \E u \in Usernames : getUser(u) /\ UNCHANGED ops
    \/ \E u \in Usernames, p \in Passwords : authenticate(u, p) /\ UNCHANGED ops
    \/ getAllUsers /\ UNCHANGED ops

SpecUser == InitUser /\ [][NextUser]_vars

\* the stored user list, as getAllUsers decodes it
StoredUsers == getAllUsersValue(users).items

\* C5: starting from an absent user partition, after any sequence of saveUser
\* and updateStats calls the stored list holds at most one record per
\* username.
C5_OneRecordPerUsername ==
    /\ getAllUsersValue(users).t = "arr"
    /\ \A i, j \in DOMAIN StoredUsers :
          i # j => Prop(StoredUsers[i], "username") # Prop(StoredUsers[j], "username")

C5_Witness ==
    /\ call.op = "updateStats"
    /\ Len(StoredUsers) = 2
    /\ \E i \in DOMAIN StoredUsers : Prop(StoredUsers[i], "stats") # Undefined

\* C7: authenticate(username, password) returns a user record exactly when
\* the stored list holds a record with that username and that password (and
\* then returns that record), returns null in every other case, and leaves
\* the store as it was.
C7_AuthenticateIffMatch ==
    [][call'.op = "authenticate" =>
         LET hit == {i \in DOMAIN StoredUsers :
                        /\ Prop(StoredUsers[i], "username") = call'.username
                        /\ Prop(StoredUsers[i], "password") = call'.password}
         IN  /\ storeVars' = storeVars
             /\ hit # {} => ret'.kind = "value" /\ \E i \in hit : ret'.val = StoredUsers[i]
             /\ hit = {} => ret' = RetNull]_vars

C7_Witness ==
    /\ call.op = "authenticate"
    /\ ret.kind = "value"
    /\ Len(StoredUsers) = 2

C7_WitnessNull ==
    /\ call.op = "authenticate"
    /\ ret = RetNull
    /\ \E i \in DOMAIN StoredUsers : Prop(StoredUsers[i], "username") = call.username


-----------------------------------------------------------------------------
(* The debounce timer of autoSave *)

TickMs == 500
MaxTime == 4000
MaxCalls == 3
NumCallers == 2

GameStates == {Obj([turn |-> N(1)]), Obj([turn |-> N(2), selected |-> Undefined])}

AutoSaveCalls == {i \in DOMAIN trace : trace[i].ev = "call"}

InitDebounce == EmptyStore /\ IdleHost

NextDebounce ==
    \/ /\ NoTimerDue
       /\ Cardinality(AutoSaveCalls) < MaxCalls
       /\ \E c \in 1..NumCallers, s \in GameStates : autoSave(c, s)
       /\ UNCHANGED ops
    \/ \E tm \in timers, raises \in BOOLEAN : deferredSave(tm, raises) /\ UNCHANGED ops
    \/ Tick(TickMs, MaxTime) /\ UNCHANGED ops

SpecDebounce == InitDebounce /\ [][NextDebounce]_vars

\* C1: in a burst of autoSave calls, each less than 2000 ms after the one
\* before, no deferred write runs; after the last call of the burst the
\* debouncer performs exactly one write, 2000 ms after that call and not
\* before, with the state of that last call; and once 2000 ms have passed
\* since a call with no later call, that write has been performed.
C1_DebounceLaw ==
    /\ \A j \in DOMAIN trace :
          trace[j].ev = "write" =>
              /\ j > 1
              /\ trace[j-1].ev = "call"
              /\ trace[j].gameState = trace[j-1].gameState
              /\ trace[j].at >= trace[j-1].at + DebounceMs
              /\ trace[j].ok => game = JSONstringify(stateToSave(trace[j].gameState, trace[j].at))
                                \/ j < Len(trace)
    /\ \A i \in DOMAIN trace :
          (trace[i].ev = "call" /\ i < Len(trace) /\ trace[i+1].ev = "call")
              => trace[i+1].at < trace[i].at + DebounceMs
    /\ (trace # <<>> /\ trace[Len(trace)].ev = "call")
          => now <= trace[Len(trace)].at + DebounceMs

\* autoSave(s1), autoSave(s2) 500 ms later, then 2100 ms and more of quiet
C1_Witness ==
    /\ Len(trace) = 3
    /\ trace[1].ev = "call" /\ trace[1].at = 0
    /\ trace[2].ev = "call" /\ trace[2].at = 500
    /\ trace[1].gameState # trace[2].gameState
    /\ trace[3].ev = "write" /\ trace[3].ok
    /\ now >= 2600

\* C2: at most one scheduled, not yet fired auto-save timer exists, whoever
\* called autoSave: the one slot `timeout` names it.
C2_AtMostOnePendingTimer ==
    /\ Cardinality(timers) <= 1
    /\ \A tm \in timers : tm.id = timeout

C2_Witness ==
    /\ Cardinality(AutoSaveCalls) = 3
    /\ call.op = "autoSave" /\ call.caller = 2
    /\ Cardinality(timers) = 1
    /\ trace[Len(trace) - 1].ev = "call"


-----------------------------------------------------------------------------
(* GameHistoryManager on a store that starts empty *)

MaxAdds == 52
HistoryHorizon == 500

\* the games are numbered in the order they enter the history
NextGame == Obj([game |-> N(adds + 1)])

InitHistory == EmptyStore /\ IdleHost

NextHistory ==
    \/ adds < MaxAdds /\ addGameToHistory(NextGame, FALSE) /\ UNCHANGED ops
    \/ addGameToHistory(NextGame, TRUE) /\ UNCHANGED ops
    \/ clearHistory /\ UNCHANGED ops
    \/ getHistory /\ UNCHANGED ops
    \/ Tick(TickMs, HistoryHorizon) /\ UNCHANGED ops

SpecHistory == InitHistory /\ [][NextHistory]_vars

StoredHistory == getHistoryValue(history).items

\* C3: starting from an absent history partition, whatever addGameToHistory
\* and clearHistory calls are made, failed writes included, the stored
\* history never has more than 50 entries.
C3_HistoryBounded ==
    /\ getHistoryValue(history).t = "arr"
    /\ Len(StoredHistory) <= MaxHistory

C3_Witness ==
    /\ adds > MaxHistory
    /\ Len(StoredHistory) = MaxHistory
    /\ call.op = "addGameToHistory" /\ call.raises

\* C4: after n successful addGameToHistory calls with distinct entries on an
\* empty history, getHistory() has min(n, 50) entries: the min(n, 50) most
\* recently added, the most recent first, in reverse order of addition.
C4_NewestFirst ==
    /\ Len(StoredHistory) = (IF adds < MaxHistory THEN adds ELSE MaxHistory)
    /\ \A i \in DOMAIN StoredHistory :
          /\ Prop(StoredHistory[i], "game") = N(adds - i + 1)
          /\ Prop(StoredHistory[i], "completedAt").t = "iso"
          /\ Prop(StoredHistory[i], "id").t = "num"
    /\ call.op = "getHistory" => ret = RetValue(Arr(StoredHistory))

C4_Witness ==
    /\ adds = MaxHistory + 2
    /\ call.op = "getHistory"
    /\ Len(ret.val.items) = MaxHistory
    /\ Prop(ret.val.items[1], "game") = N(MaxHistory + 2)
    /\ Prop(ret.val.items[MaxHistory], "game") = N(3)


\* C6: after a successful saveUser(r), getUser(r.username) returns a record
\* that has every field of r with r's value and keeps every field of the
\* record stored before under that username that r does not name; and
\* saving r once more leaves the user partition as it is.
C6_MergeLaw ==
    [][(call'.op = "saveUser" /\ ret' = RetBool(TRUE)) =>
         LET r == call'.userData
             old == getUserOutcome(users, Prop(r, "username"))
             got == getUserOutcome(users', Prop(r, "username"))
         IN  /\ got.kind = "value"
             /\ \A k \in DOMAIN r.f : Prop(got.val, k) = r.f[k]
             /\ old.kind = "value" =>
                   \A k \in DOMAIN old.val.f \ DOMAIN r.f : Prop(got.val, k) = old.val.f[k]
             /\ old.kind = "null" => got.val = r
             /\ saveUserOutcome(users', r, FALSE).item = users']_vars

\* a record without password saved over a stored record that has one
C6_Witness ==
    /\ call.op = "saveUser" /\ ret = RetBool(TRUE)
    /\ "password" \notin DOMAIN call.userData.f
    /\ "stats" \in DOMAIN call.userData.f
    /\ LET got == getUserOutcome(users, Prop(call.userData, "username"))
       IN  got.kind = "value" /\ Prop(got.val, "password") # Undefined
                              /\ Prop(got.val, "stats") = Prop(call.userData, "stats")

-----------------------------------------------------------------------------
(* All four managers on a store whose content is arbitrary *)

MaxOps == 2

AnnRecord == Obj([username |-> S("ann"), password |-> S("p1"), stats |-> Obj([wins |-> N(1)])])
BobRecord == Obj([username |-> S("bob"), password |-> S("p2")])

\* what a partition may hold when the script starts: nothing, a string that
\* is no JSON, or the JSON text of null, of an object, of a list of records,
\* of a list with a null entry
StoreProfiles == {"absent", "malformed", "null", "object", "list", "nullEntry"}

UsersContent(p) ==
    CASE p = "absent" -> Absent
      [] p = "malformed" -> Malformed
      [] p = "null" -> Text(Null)
      [] p = "object" -> Text(AnnRecord)
      [] p = "list" -> Text(Arr(<<AnnRecord, BobRecord>>))
      [] p = "nullEntry" -> Text(Arr(<<AnnRecord, Null>>))

GameContent(p) ==
    CASE p = "absent" -> Absent
      [] p = "malformed" -> Malformed
      [] p = "null" -> Text(Null)
      [] p = "object" -> Text(Obj([turn |-> N(1), timestamp |-> ISO(0), version |-> S("1.0")]))
      [] p = "list" -> Text(Arr(<<>>))
      [] p = "nullEntry" -> Text(Arr(<<Null>>))

HistoryContent(p) ==
    CASE p = "absent" -> Absent
      [] p = "malformed" -> Malformed
      [] p = "null" -> Text(Null)
      [] p = "object" -> Text(EmptyObj)
      [] p = "list" -> Text(Arr(<<Obj([game |-> N(0), completedAt |-> ISO(0), id |-> N(0)])>>))
      [] p = "nullEntry" -> Text(Arr(<<Null>>))

SettingsContent(p) ==
    CASE p = "absent" -> Absent
      [] p = "malformed" -> Malformed
      [] p = "null" -> Text(Null)
      [] p = "object" -> Text(Obj([difficulty |-> S("hard")]))
      [] p = "list" -> Text(Arr(<<S("hard")>>))
      [] p = "nullEntry" -> Text(Arr(<<Null>>))

StoreRecords ==
    { Obj([username |-> S("ann"), password |-> S("p2")]),
      Obj([username |-> S("bob"), stats |-> Obj([wins |-> N(2)])]) }

StoreSettings == { Obj([difficulty |-> S("easy")]), Undefined }

InitStore ==
    /\ \E p \in StoreProfiles :
          /\ users = UsersContent(p)
          /\ game = GameContent(p)
          /\ history = HistoryContent(p)
          /\ settings = SettingsContent(p)
    /\ IdleHost

Counted == ops < MaxOps /\ ops' = ops + 1

NextStore ==
    \/ \E r \in StoreRecords, raises \in BOOLEAN : saveUser(r, raises) /\ Counted
    \/ \E u \in Usernames, raises \in BOOLEAN :
          updateStats(u, Obj([losses |-> N(1)]), raises) /\ Counted
    \/ \E u \in Usernames : getUser(u) /\ Counted
    \/ \E u \in Usernames, p \in Passwords : authenticate(u, p) /\ Counted
    \/ getAllUsers /\ Counted
    \/ \E s \in GameStates, raises \in BOOLEAN :
          NoTimerDue /\ saveGameState(s, raises) /\ Counted
    \/ NoTimerDue /\ loadGameState /\ Counted
    \/ NoTimerDue /\ hasSavedGame /\ Counted
    \/ NoTimerDue /\ clearGameState /\ Counted
    \/ \E s \in GameStates : NoTimerDue /\ autoSave(1, s) /\ Counted
    \/ \E tm \in timers, raises \in BOOLEAN : deferredSave(tm, raises) /\ UNCHANGED ops
    \/ \E raises \in BOOLEAN : addGameToHistory(NextGame, raises) /\ Counted
    \/ getHistory /\ Counted
    \/ clearHistory /\ Counted
    \/ \E s \in StoreSettings, raises \in BOOLEAN : saveSettings(s, raises) /\ Counted
    \/ loadSettings /\ Counted
    \/ Tick(DebounceMs, DebounceMs) /\ UNCHANGED ops

SpecStore == InitStore /\ [][NextStore]_vars


\* the list saveUser scans: the stored list, none when nothing is stored or
\* the payload cannot be decoded
ScannedList == IF users.kind = "text" /\ users.json.t = "arr" THEN users.json.items ELSE <<>>

\* the payload decodes to a value that is no list
StoredNoList == users.kind = "text" /\ users.json.t # "arr"

\* a null entry stands ahead of every record named `name`
NullAhead(name) ==
    \E i \in DOMAIN ScannedList :
        /\ ScannedList[i] = Null
        /\ \A j \in 1..(i - 1) : Prop(ScannedList[j], "username") # name

\* the partition is absent, or undecodable, or holds a list of records
RecordsOrNone == ~StoredNoList /\ \A i \in DOMAIN ScannedList : ScannedList[i] # Null

\* C8 as stated, for a partition that is absent, undecodable or a list of
\* records: saveUser returns false when the store raises on write or the
\* stored payload cannot be decoded, leaving the partition as it was, and
\* returns true in every other case.
C8_Original ==
    [][(call'.op = "saveUser" /\ RecordsOrNone) =>
         LET fails == call'.raises \/ users = Malformed
         IN  /\ ret' = RetBool(~fails)
             /\ fails => users' = users]_vars

\* C8, amended: saveUser returns false when the store raises on write, or when
\* the stored payload decodes to a value that is no list or has a null entry
\* ahead of the record to update, and then leaves the partition as it was; in
\* every other case it returns true, and a payload that cannot be decoded
\* counts as the empty list: it is replaced by the list of the saved record.
C8_FalseOnlyOnRaise ==
    [][call'.op = "saveUser" =>
         LET r == call'.userData
             fails == \/ call'.raises
                      \/ StoredNoList
                      \/ NullAhead(Prop(r, "username"))
         IN  /\ ret' = RetBool(~fails)
             /\ fails => users' = users
             /\ (users = Malformed /\ ~call'.raises) => users' = Text(Arr(<<r>>))]_vars

C8_Witness ==
    /\ call.op = "saveUser" /\ ~call.raises
    /\ ops = 1
    /\ ret = RetBool(TRUE)
    /\ users = Text(Arr(<<call.userData>>))
    /\ game = Malformed

\* C9: no operation of the four managers lets an error escape to its caller,
\* whatever the partitions hold and whether or not the store raises.
C9_NoErrorEscapes == ret.kind # "throw"

WriteOps == {"saveUser", "updateStats", "saveGameState", "deferredSave",
             "addGameToHistory", "saveSettings"}

\* C10 as stated: a write failure in saveUser, updateStats, saveGameState or
\* the deferred write of autoSave gives the caller a boolean failure result,
\* one in addGameToHistory or saveSettings gives no result; the partitions
\* keep their content.
C10_Original ==
    [][(call'.op \in WriteOps /\ call'.writeFailed) =>
         /\ storeVars' = storeVars
         /\ call'.op \in {"saveUser", "updateStats", "saveGameState", "deferredSave"}
               => ret' = RetBool(FALSE)
         /\ call'.op \in {"addGameToHistory", "saveSettings"} => ret' = RetUndefined]_vars

\* C10, amended: a write failure in saveUser or saveGameState gives the
\* caller the boolean false; one in updateStats, in the deferred write of
\* autoSave, in addGameToHistory or in saveSettings is swallowed and gives no
\* result; in all cases the partitions keep their content.
C10_WriteFailureResult ==
    [][(call'.op \in WriteOps /\ call'.writeFailed) =>
         /\ storeVars' = storeVars
         /\ call'.op \in {"saveUser", "saveGameState"} => ret' = RetBool(FALSE)
         /\ call'.op \in {"updateStats", "deferredSave", "addGameToHistory", "saveSettings"}
               => ret' = RetUndefined]_vars

C10_Witness ==
    /\ call.op = "deferredSave" /\ call.writeFailed
    /\ ret = RetUndefined
    /\ game = Text(Arr(<<Null>>))
    /\ timers = {}


-----------------------------------------------------------------------------
(* SettingsManager on a store that starts empty or with an undecodable payload *)

\* settings records: any of the known fields and of one extra field
SettingsValue(k) ==
    IF k \in {"soundEnabled", "autoSave"} THEN B(FALSE)
    ELSE IF k = "difficulty" THEN S("hard") ELSE S("dark")

SettingsRecords ==
    { Obj([k \in d |-> SettingsValue(k)]) :
        d \in SUBSET {"soundEnabled", "autoSave", "difficulty", "theme"} }

SettingsInputs == SettingsRecords \cup {Null, Undefined}

InitSettings ==
    /\ users = Absent /\ game = Absent /\ history = Absent
    /\ settings \in {Absent, Malformed}
    /\ IdleHost

NextSettings ==
    \/ \E s \in SettingsInputs, raises \in BOOLEAN : saveSettings(s, raises) /\ UNCHANGED ops
    \/ loadSettings /\ UNCHANGED ops

SpecSettings == InitSettings /\ [][NextSettings]_vars

KnownSettings == {"soundEnabled", "autoSave", "difficulty"}

\* C11: loadSettings always returns a record with soundEnabled, autoSave and
\* difficulty: the defaults exactly when the partition is absent or
\* undecodable, else the stored record merged over the defaults (every stored
\* field with its stored value, every known field not stored with its
\* default, nothing else).
C11_LoadSettingsDefaults ==
    call.op = "loadSettings" =>
        /\ ret.kind = "value" /\ ret.val.t = "obj"
        /\ KnownSettings \subseteq DOMAIN ret.val.f
        /\ settings \in {Absent, Malformed} =>
              ret.val = Obj([soundEnabled |-> B(TRUE), autoSave |-> B(TRUE),
                             difficulty |-> S("medium")])
        /\ (settings.kind = "text" /\ settings.json.t = "obj") =>
              LET stored == settings.json.f
              IN  /\ DOMAIN ret.val.f = KnownSettings \cup DOMAIN stored
                  /\ \A k \in DOMAIN stored : ret.val.f[k] = stored[k]
                  /\ \A k \in KnownSettings \ DOMAIN stored : ret.val.f[k] = defaults.f[k]
        /\ settings = Text(Obj([difficulty |-> S("hard")])) =>
              ret.val = Obj([soundEnabled |-> B(TRUE), autoSave |-> B(TRUE),
                             difficulty |-> S("hard")])

\* loadSettings after saveSettings({difficulty: "hard"})
C11_Witness ==
    /\ call.op = "loadSettings"
    /\ settings = Text(Obj([difficulty |-> S("hard")]))
    /\ ret.val.f.difficulty = S("hard")


-----------------------------------------------------------------------------
(* GameStateManager on a store that starts empty or with an undecodable payload *)

GameTickMs == 1000
GameHorizon == 3000
GameCalls == 2

\* game states handed to saveGameState: those of GameStates, one that has
\* timestamp and version fields of its own, one with a NaN field
RoundTripStates ==
    GameStates \cup
    { Obj([turn |-> N(3), timestamp |-> ISO(0), version |-> S("0.9")]),
      Obj([turn |-> N(4), score |-> NaN]) }

InitGame ==
    /\ users = Absent /\ history = Absent /\ settings = Absent
    /\ game \in {Absent, Malformed}
    /\ IdleHost

NextGameState ==
    \/ \E s \in RoundTripStates, raises \in BOOLEAN :
          NoTimerDue /\ saveGameState(s, raises) /\ UNCHANGED ops
    \/ NoTimerDue /\ loadGameState /\ UNCHANGED ops
    \/ NoTimerDue /\ hasSavedGame /\ UNCHANGED ops
    \/ NoTimerDue /\ clearGameState /\ UNCHANGED ops
    \/ /\ NoTimerDue
       /\ Cardinality(AutoSaveCalls) < GameCalls
       /\ \E s \in GameStates : autoSave(1, s)
       /\ UNCHANGED ops
    \/ \E tm \in timers, raises \in BOOLEAN : deferredSave(tm, raises) /\ UNCHANGED ops
    \/ Tick(GameTickMs, GameHorizon) /\ UNCHANGED ops

SpecGame == InitGame /\ [][NextGameState]_vars

\* the fields of s that JSON.stringify writes and JSON.parse gives back as
\* they were
SurvivingFields(s) == {k \in DOMAIN s.f : s.f[k].t # "undefined" /\ ToJSON(s.f[k]) = s.f[k]}

\* a loadGameState that directly follows a successful saveGameState(s)
LoadAfterSave ==
    /\ call.op = "saveGameState" /\ ret = RetBool(TRUE)
    /\ call'.op = "loadGameState"

\* C12 as stated: the loaded record equals s on every field of s and has a
\* timestamp holding the save time and a version equal to "1.0".
C12_Original ==
    [][LoadAfterSave =>
          /\ ret'.kind = "value"
          /\ \A k \in DOMAIN call.gameState.f :
                /\ k \in DOMAIN ret'.val.f
                /\ ret'.val.f[k] = call.gameState.f[k]
          /\ ret'.val.f.timestamp = ISO(call.at)
          /\ ret'.val.f.version = S("1.0")]_vars

\* C12 (amended): a successful saveGameState(s) followed directly by
\* loadGameState returns a record whose timestamp holds the save time and
\* whose version is "1.0", whatever s held under those two names; it equals
\* s on every other field of s whose value JSON represents exactly, has no
\* field for a field of s that is undefined, and has null for a field that is
\* NaN.  hasSavedGame is false on an empty partition and true after a
\* successful save.
C12_RoundTrip ==
    [][/\ LoadAfterSave =>
             LET s == call.gameState
                 got == ret'.val
             IN  /\ ret'.kind = "value" /\ got.t = "obj"
                 /\ got.f.timestamp = ISO(call.at)
                 /\ got.f.version = S("1.0")
                 /\ \A k \in SurvivingFields(s) \ {"timestamp", "version"} :
                       k \in DOMAIN got.f /\ got.f[k] = s.f[k]
                 /\ \A k \in DOMAIN s.f \ {"timestamp", "version"} :
                       /\ s.f[k].t = "undefined" => k \notin DOMAIN got.f
                       /\ s.f[k].t = "nan" => k \in DOMAIN got.f /\ got.f[k] = Null
                 /\ DOMAIN got.f \subseteq DOMAIN s.f \cup {"timestamp", "version"}
       /\ (call'.op = "hasSavedGame" /\ game = Absent) => ret' = RetBool(FALSE)
       /\ (call'.op = "hasSavedGame" /\ call.op = "saveGameState" /\ ret = RetBool(TRUE))
             => ret' = RetBool(TRUE)]_vars

\* loadGameState has just answered a successful save of a state that holds a
\* timestamp of its own, made at a later instant
C12_Witness ==
    /\ call.op = "loadGameState"
    /\ ret.kind = "value"
    /\ Prop(ret.val, "turn") = N(3)
    /\ Prop(ret.val, "timestamp") = ISO(GameTickMs)
    /\ game = Text(ret.val)


-----------------------------------------------------------------------------
(* Clearing a partition *)

\* C13: clearGameState and clearHistory leave their partition absent and
\* raise nothing, whatever the partition held; a second call in a row leaves
\* the store exactly as the first left it; directly afterwards hasSavedGame
\* is false, loadGameState is null and getHistory is the empty list.
C13_ClearIdempotent ==
    [][/\ call'.op = "clearGameState" => game' = Absent /\ ret' = RetUndefined
       /\ call'.op = "clearHistory" => history' = Absent /\ ret' = RetUndefined
       /\ (call.op = "clearGameState" /\ call'.op = "clearGameState")
             => storeVars' = storeVars
       /\ (call.op = "clearHistory" /\ call'.op = "clearHistory")
             => storeVars' = storeVars
       /\ (call.op = "clearGameState" /\ call'.op = "hasSavedGame")
             => ret' = RetBool(FALSE)
       /\ (call.op = "clearGameState" /\ call'.op = "loadGameState")
             => ret' = RetNull
       /\ (call.op = "clearHistory" /\ call'.op = "getHistory")
             => ret' = RetValue(Arr(<<>>))]_vars

\* the second of two clearGameState calls on a store whose partitions all
\* held something: the first found a payload, the second an absent key
C13_Witness ==
    /\ call.op = "clearGameState"
    /\ call.before = Absent
    /\ game = Absent
    /\ users # Absent /\ history # Absent
    /\ ops = MaxOps


-----------------------------------------------------------------------------
(* The four partitions *)

UserOps == {"saveUser", "getAllUsers", "getUser", "authenticate", "updateStats"}
GameOps == {"saveGameState", "loadGameState", "hasSavedGame", "clearGameState",
            "autoSave", "deferredSave"}
HistoryOps == {"addGameToHistory", "getHistory", "clearHistory"}
SettingsOps == {"saveSettings", "loadSettings"}
ReadOps == {"getAllUsers", "getUser", "authenticate", "loadGameState", "hasSavedGame",
            "getHistory", "loadSettings"}

\* C14: an operation of one manager, the deferred write of autoSave
\* included, leaves the partitions of the other three managers unchanged,
\* and a read-only operation leaves all four unchanged.
C14_PartitionIsolation ==
    [][/\ call'.op \in UserOps => UNCHANGED <<game, history, settings>>
       /\ call'.op \in GameOps => UNCHANGED <<users, history, settings>>
       /\ call'.op \in HistoryOps => UNCHANGED <<users, game, settings>>
       /\ call'.op \in SettingsOps => UNCHANGED <<users, game, history>>
       /\ call'.op \in ReadOps => UNCHANGED storeVars
       /\ call'.op = "autoSave" => UNCHANGED storeVars]_vars

\* clearHistory has removed a history payload while the other three
\* partitions hold payloads
C14_Witness ==
    /\ call.op = "clearHistory"
    /\ call.before # Absent
    /\ history = Absent
    /\ users # Absent /\ game # Absent /\ settings # Absent


-----------------------------------------------------------------------------
(* The save and load buttons *)

PageTickMs == 1000
PageHorizon == 3000
MaxClicks == 2

Pages == {Page(i, m, r) : i \in BOOLEAN, m \in BOOLEAN, r \in BOOLEAN}

InitUI ==
    /\ EmptyStore
    /\ now = 0 /\ timeout = 0 /\ timers = {} /\ nextId = 1
    /\ call = NoCall /\ ret = RetUndefined /\ trace = <<>> /\ adds = 0 /\ ops = 0
    /\ ui \in Pages

Clicked == ops < MaxClicks /\ ops' = ops + 1

NextUI ==
    \/ \E loaded \in BOOLEAN, active \in BOOLEAN, success \in BOOLEAN :
          NoPageTimerDue /\ saveClick(loaded, active, success) /\ Clicked
    \/ \E loaded \in BOOLEAN, saved \in BOOLEAN, active \in BOOLEAN,
          confirmed \in BOOLEAN, success \in BOOLEAN :
          NoPageTimerDue /\ loadClick(loaded, saved, active, confirmed, success) /\ Clicked
    \/ \E tm \in ui.pending : uiTimeout(tm) /\ UNCHANGED ops
    \/ PageTick(PageTickMs, PageHorizon) /\ UNCHANGED ops

SpecUI == InitUI /\ [][NextUI]_vars

\* the handlers reach saveGame and loadGame only behind their checks
BoundaryGuards ==
    /\ (call'.op = "saveClick" /\ call'.invoked) => call'.loaded /\ call'.active
    /\ (call'.op = "loadClick" /\ call'.invoked) =>
          /\ call'.loaded /\ call'.saved
          /\ ~call'.active \/ call'.confirmed

\* what a handler leaves on the page after a true result
SuccessShown ==
    \/ call'.op = "saveClick" /\ (ui'.indicator = "block" \/ ui'.message = SavedText)
    \/ call'.op = "loadClick" /\ (~ui'.rollDisabled \/ ui'.message = LoadedText)

\* C15: the save handler calls saveGame only when gameLogic is loaded and a
\* game is active; the load handler calls loadGame only when gameLogic is
\* loaded, hasSavedGame was true and no game is active or the user confirmed;
\* and every result of such a call is followed by success feedback on the
\* page or by an error alert.
C15_UIBoundary ==
    [][/\ BoundaryGuards
       /\ (call'.op \in {"saveClick", "loadClick"} /\ call'.invoked) =>
             \/ call'.success /\ SuccessShown
             \/ ~call'.success /\ call'.alert # ""]_vars

\* what the handlers do in every case: the checks, an alert after a false
\* result, and after a true result the feedback of each element the page has
UIBoundaryOnPage ==
    [][/\ BoundaryGuards
       /\ (call'.op \in {"saveClick", "loadClick"} /\ call'.invoked /\ ~call'.success) =>
             call'.alert # "" /\ ui' = ui
       /\ (call'.op = "saveClick" /\ call'.success) =>
             /\ ui'.hasIndicator => ui'.indicator = "block"
             /\ ui'.hasMessage => ui'.message = SavedText
             /\ call'.alert = ""
       /\ (call'.op = "loadClick" /\ call'.success) =>
             /\ ui'.hasRoll => ~ui'.rollDisabled
             /\ ui'.hasMessage => ui'.message = LoadedText
             /\ call'.alert = ""]_vars


-----------------------------------------------------------------------------
(* The debouncer under a host that runs due timers and lets time pass *)

LiveTickMs == 1000
LiveHorizon == 4000
LiveCalls == 2

InitLive == EmptyStore /\ IdleHost

\* every call is made early enough for its timer to run out within the horizon
NextLive ==
    \/ /\ NoTimerDue
       /\ Cardinality(AutoSaveCalls) < LiveCalls
       /\ now + DebounceMs <= LiveHorizon
       /\ \E c \in 1..NumCallers, s \in GameStates : autoSave(c, s)
       /\ UNCHANGED ops
    \/ \E tm \in timers, raises \in BOOLEAN : deferredSave(tm, raises) /\ UNCHANGED ops
    \/ Tick(LiveTickMs, LiveHorizon) /\ UNCHANGED ops

\* the host's event loop runs the callback of a timer that has run out, and
\* time passes
SpecLive ==
    /\ InitLive /\ [][NextLive]_vars
    /\ WF_vars(\E tm \in timers, raises \in BOOLEAN : deferredSave(tm, raises) /\ UNCHANGED ops)
    /\ WF_vars(Tick(LiveTickMs, LiveHorizon) /\ UNCHANGED ops)

Idle == timers = {}
Pending == timers # {}
LastEvent == trace[Len(trace)]
Writes == {i \in DOMAIN trace : trace[i].ev = "write"}
LastIsWrite == IF trace = <<>> THEN FALSE ELSE LastEvent.ev = "write"

\* C16: an autoSave call, made in idle or in pending, leaves the debouncer
\* pending with one timer, started at the call; whenever the debouncer is
\* pending, either a further autoSave call arrives or the timer runs out,
\* one write of the last call's state is performed and the debouncer is idle;
\* in idle no write is performed.  Each call in pending moves the due time
\* to 2000 ms after itself, so calls spaced under 2000 ms apart keep
\* postponing the write.
C16_DebounceLiveness ==
    /\ [][(call'.op = "autoSave" /\ trace' # trace) =>
             /\ Pending'
             /\ timers' = {[id |-> timeout', due |-> now + DebounceMs,
                            gameState |-> call'.gameState]}]_vars
    /\ [][(Idle /\ trace' # trace) => Pending' /\ trace'[Len(trace')].ev = "call"]_vars
    /\ [][(Pending /\ Idle') =>
             /\ trace' = Append(trace, [ev |-> "write", at |-> now,
                                        gameState |-> LastEvent.gameState,
                                        ok |-> ~call'.writeFailed])
             /\ LastEvent.ev = "call"
             /\ now = LastEvent.at + DebounceMs]_vars
    /\ \A n \in 0..LiveCalls :
          (Pending /\ Cardinality(AutoSaveCalls) = n)
             ~> \/ Idle /\ LastIsWrite /\ Cardinality(AutoSaveCalls) = n
                \/ Cardinality(AutoSaveCalls) > n

\* idle, pending, pending again by a call 1000 ms later that postpones the
\* write past the instant the first call alone would have had it, then idle
\* after the one write
C16_Witness ==
    /\ Len(trace) = 3
    /\ trace[1].ev = "call" /\ trace[1].at = 0
    /\ trace[2].ev = "call" /\ trace[2].at = LiveTickMs
    /\ trace[3].ev = "write" /\ trace[3].at = LiveTickMs + DebounceMs
    /\ Idle
    /\ Cardinality(Writes) = 1


-----------------------------------------------------------------------------
(* What updateStats and saveUser leave alone *)

\* the fields of a stats mapping, none when the record has no stats
StatsFields(record) ==
    IF "stats" \in DOMAIN record.f /\ record.f["stats"].t = "obj"
    THEN record.f["stats"].f ELSE <<>>

\* C17: updateStats(username, patch) leaves the user partition unchanged
\* when no record has that username, and when the store raises on write;
\* otherwise only that user's stats change, to the previous stats with the
\* keys of patch overriding and the other keys surviving, while that user's
\* other fields, every other record and the number of records stay as they
\* were.
C17_UpdateStatsFrame ==
    [][call'.op = "updateStats" =>
         LET old == StoredUsers
             new == getAllUsersValue(users').items
             i == FirstMatch(old, call'.username)
             patch == call'.stats.f
         IN  /\ ret' = RetUndefined
             /\ (i = 0 \/ call'.writeFailed) => users' = users
             /\ (i >= 1 /\ ~call'.writeFailed) =>
                   /\ Len(new) = Len(old)
                   /\ \A j \in DOMAIN old : j # i => new[j] = old[j]
                   /\ DOMAIN new[i].f = DOMAIN old[i].f \cup {"stats"}
                   /\ \A k \in DOMAIN old[i].f \ {"stats"} : new[i].f[k] = old[i].f[k]
                   /\ DOMAIN StatsFields(new[i]) =
                         DOMAIN StatsFields(old[i]) \cup DOMAIN patch
                   /\ \A k \in DOMAIN patch : StatsFields(new[i])[k] = patch[k]
                   /\ \A k \in DOMAIN StatsFields(old[i]) \ DOMAIN patch :
                         StatsFields(new[i])[k] = StatsFields(old[i])[k]]_vars

\* updateStats("ann", {wins: 1}) on a list of two users where ann had
\* {wins: 2, losses: 1}: losses survives, wins is overridden
C17_Witness ==
    /\ call.op = "updateStats" /\ ~call.writeFailed
    /\ call.username = S("ann") /\ call.stats = Obj([wins |-> N(1)])
    /\ Len(StoredUsers) = 2
    /\ \E i \in DOMAIN StoredUsers :
          /\ Prop(StoredUsers[i], "username") = S("ann")
          /\ Prop(StoredUsers[i], "stats") = Obj([wins |-> N(1), losses |-> N(1)])
          /\ "password" \in DOMAIN StoredUsers[i].f


\* C18: a successful saveUser(r) updates the record with r.username at the
\* position it has and keeps the length of the list when there is one, and
\* appends r at the end, the length growing by one, when there is none; the
\* records with another username keep their content and their order.  A
\* saveUser that fails leaves the list as it was.
C18_SaveUserKeepsOthers ==
    [][call'.op = "saveUser" =>
         LET old == StoredUsers
             new == getAllUsersValue(users').items
             name == Prop(call'.userData, "username")
             i == FirstMatch(old, name)
         IN  /\ ret' = RetBool(FALSE) => users' = users
             /\ (ret' = RetBool(TRUE) /\ i >= 1) =>
                   /\ Len(new) = Len(old)
                   /\ Prop(new[i], "username") = name
                   /\ \A j \in DOMAIN old : j # i => new[j] = old[j]
             /\ (ret' = RetBool(TRUE) /\ i = 0) =>
                   /\ Len(new) = Len(old) + 1
                   /\ new[Len(new)] = ToJSON(call'.userData)
                   /\ \A j \in DOMAIN old : new[j] = old[j]]_vars

\* saveUser({username: "ann"}) on the list [ann, bob]: ann, who keeps the
\* password stored before, is still first and bob still second
C18_Witness ==
    /\ call.op = "saveUser" /\ ret = RetBool(TRUE)
    /\ call.userData = Obj([username |-> S("ann")])
    /\ Len(StoredUsers) = 2
    /\ Prop(StoredUsers[1], "username") = S("ann")
    /\ "password" \in DOMAIN StoredUsers[1].f
    /\ Prop(StoredUsers[2], "username") = S("bob")


-----------------------------------------------------------------------------
(* Presence of a saved game *)

\* C19: hasSavedGame is true exactly when the game-state key is present,
\* whether or not its payload decodes: with an undecodable payload it is true
\* while loadGameState is null, and with the key absent it is false and
\* loadGameState is null.
C19_PresenceOnly ==
    /\ call.op = "hasSavedGame" =>
          /\ game = Absent => ret = RetBool(FALSE)
          /\ game # Absent => ret = RetBool(TRUE)
    /\ (call.op = "loadGameState" /\ game \in {Absent, Malformed}) => ret = RetNull

\* hasSavedGame has answered true on an undecodable payload
C19_Witness ==
    /\ call.op = "hasSavedGame"
    /\ game = Malformed
    /\ ret = RetBool(TRUE)


-----------------------------------------------------------------------------
(* A pending auto-save and the other operations on the game state *)

\* the autoSave call the scheduled write belongs to: the last one made
LastCall == trace[CHOOSE i \in AutoSaveCalls : \A j \in AutoSaveCalls : j <= i]

\* C20: clearGameState and saveGameState leave a scheduled auto-save as it
\* is; a scheduled write is dropped only by a new autoSave call or by running;
\* it runs 2000 ms after the autoSave call it belongs to, whatever was called
\* in between, and, the store not raising, leaves the game-state partition
\* holding the state of that call.
C20_OnlyAutoSaveCancels ==
    [][/\ call'.op \in {"clearGameState", "saveGameState", "loadGameState", "hasSavedGame"}
             => UNCHANGED <<timers, timeout>>
       /\ timers' # timers => call'.op \in {"autoSave", "deferredSave"}
       /\ timers # {} => now <= LastCall.at + DebounceMs
       /\ (call'.op = "deferredSave" /\ trace' # trace) =>
             /\ now = LastCall.at + DebounceMs
             /\ call'.gameState = LastCall.gameState
             /\ timers' = {}
             /\ ~call'.writeFailed =>
                   game' = JSONstringify(stateToSave(LastCall.gameState, now))
             /\ call'.writeFailed => game' = game]_vars

\* the scheduled write of autoSave(s1) has run over a payload that a later
\* saveGameState(s2) had stored
C20_Witness ==
    /\ call.op = "deferredSave" /\ ~call.writeFailed
    /\ call.before.kind = "text"
    /\ Prop(call.before.json, "turn") = N(3)
    /\ Prop(call.before.json, "timestamp") = ISO(GameTickMs)
    /\ game = JSONstringify(stateToSave(call.gameState, DebounceMs))
    /\ call.gameState \in GameStates

=============================================================================
